---- MODULE Spec2Model ----
(***************************************************************************)
(* A model of node/node.go: the batch pipeline (ProcessBatch and its store *)
(* goroutine), the validation fan-out (ValidateBatch, validateBlob), the   *)
(* expiration sweeper (expireLoop) and the socket reconciler (Start,       *)
(* checkRegisteredNodeIpOnChain, checkCurrentNodeIp, updateSocketAddress). *)
(* Each component has its own specification over the shared variables:     *)
(*   Spec          the batch pipeline, NumCalls concurrent ProcessBatch    *)
(*   SpecValidate  one ValidateBatch call with its worker pool             *)
(*   SpecExpire    the expiration sweeper                                  *)
(*   SpecSocket    Start and the two socket watchers                       *)
(***************************************************************************)
EXTENDS Integers, Sequences, FiniteSets, TLC

\* ---------------------------------------------------------------- bounds
\* Number of ProcessBatch calls that may be in flight.
NumCalls == 2
\* Number of distinct batch headers (header hashes).
NumHeaders == 2
\* Number of blobs of a batch.
MaxBlobs == 2

Calls == 1..NumCalls
Headers == 1..NumHeaders
Blobs == 1..MaxBlobs

VARIABLES
    \* ---- batch pipeline
    store,        \* Node.Store: the set of keys present in the database
    pc,           \* position of each ProcessBatch call
    hdr,          \* header of each call
    err,          \* the local variable err of ProcessBatch (lines 241, 281)
    gpc,          \* position of the store goroutine of each call (lines 260-277)
    gres,         \* the storeResult the goroutine sends on storeChan
    ret,          \* what ProcessBatch returned: [sig, err]
    stages,       \* Metrics.AcceptBatches stages recorded by each call, in order
    storeOutcome, \* history: what this call's StoreBatch did
    valOutcome,   \* history: whether fetch and every ValidateBlob of this call passed
    delCalls,     \* history: this call's DeleteKeys invocations, [keys, ok] each
    priorDone,    \* history: the calls that had returned when this call began
    storeAtRet    \* history: the store contents when this call returned

VARIABLES
    \* ---- one ValidateBatch call and its worker pool
    vN,           \* len(blobs)
    vWorkers,     \* Config.NumBatchValidators
    vFetchOk,     \* whether GetOperatorStateByOperator succeeds
    vBlobOk,      \* whether Validator.ValidateBlob passes, per blob
    vpc,          \* position of ValidateBatch
    vSub,         \* blobs submitted to the pool so far (loop of line 325)
    job,          \* per blob: "none", "queued", "running", "done"
    out,          \* the channel out: the results sent and not yet received
    vi,           \* the loop counter i of line 332
    vRet          \* what ValidateBatch returned

VARIABLES
    \* ---- expiration sweeper
    pollIntervalSec, \* Config.ExpirationPollIntervalSec
    epc,             \* position of expireLoop: "waiting" or "sweeping"
    tick,            \* ticks buffered in ticker.C (capacity 1)
    timeLimitSec,    \* the budget last passed to DeleteExpiredEntries
    inFlight,        \* DeleteExpiredEntries invocations running
    sweepsStarted,   \* history: invocations started
    ticksTaken,      \* history: ticks received from ticker.C
    lastSweep        \* outcome of the last invocation

VARIABLES
    \* ---- socket reconciler
    CurrentSocket,   \* Node.CurrentSocket (0 is the empty string)
    mu,              \* Node.mu: "free" or the holder
    cfgSocket,       \* the socket built from Config.Hostname and the ports
    pubIPCheckInterval, \* Config.PubIPCheckInterval
    registerAtStart, \* Config.RegisterNodeAtStart
    startPc,         \* position of Start
    chainPc,         \* position of checkRegisteredNodeIpOnChain
    chainEv,         \* the socket received from socketChan
    pollPc,          \* position of checkCurrentNodeIp / updateSocketAddress
    pollSocket,      \* newSocketAddr
    timer,           \* the time.Timer t: "none", "armed", "ready", "drained"
    cancelled,       \* ctx.Done() is closed
    onchain,         \* the socket registered on chain by this node's transactor
    processedEvents, \* history: event values the watcher has processed
    updatedOk,       \* history: sockets for which UpdateOperatorSocket succeeded
    updateCalls,     \* history: calls of Transactor.UpdateOperatorSocket per caller
    lastPoll,        \* history: outcome of the last poll of checkCurrentNodeIp
    socketChanges,   \* Metrics.RecordSocketAddressChange count
    writeLog         \* history: writes to CurrentSocket, [by, held, watchers]

varsBatch == <<store, pc, hdr, err, gpc, gres, ret, stages, storeOutcome,
               valOutcome, delCalls, priorDone, storeAtRet>>
varsVal == <<vN, vWorkers, vFetchOk, vBlobOk, vpc, vSub, job, out, vi, vRet>>
varsExpire == <<pollIntervalSec, epc, tick, timeLimitSec, inFlight, sweepsStarted,
                ticksTaken, lastSweep>>
varsSocket == <<CurrentSocket, mu, cfgSocket, pubIPCheckInterval, registerAtStart,
                startPc, chainPc, chainEv, pollPc, pollSocket, timer, cancelled,
                onchain, processedEvents, updatedOk, updateCalls, lastPoll,
                socketChanges, writeLog>>

vars == <<varsBatch, varsVal, varsExpire, varsSocket>>
notBatch == <<varsVal, varsExpire, varsSocket>>
notVal == <<varsBatch, varsExpire, varsSocket>>
notExpire == <<varsBatch, varsVal, varsSocket>>
notSocket == <<varsBatch, varsVal, varsExpire>>

\* ---------------------------------------------------------------- store
\* The keys StoreBatch writes for a batch: the batch header key (blob 0) and
\* one key per blob.
Keys(h) == {<<h, b>> : b \in 0..MaxBlobs}

Nil == "nil"

\* Store.StoreBatch: outcome "exists" when the header is already present (no
\* keys), otherwise an atomic write of all keys ("fresh") or a failure that
\* writes nothing ("failed").
StoreBatchOutcomes(s, h) ==
    IF <<h, 0>> \in s THEN {"exists"} ELSE {"fresh", "failed"}

StoreBatchWrite(s, h, outcome) ==
    IF outcome = "fresh" THEN s \cup Keys(h) ELSE s

\* Store.DeleteKeys: bulk delete; on failure nothing is deleted.
DeleteKeys(s, keys, ok) ==
    IF ok THEN s \ keys ELSE s

\* ---------------------------------------------------------------- validation result
\* What ValidateBatch may return for given collaborator answers: the fetch
\* error, nil when every blob passes, otherwise the error of a failing blob.
ValidateBatchResults(fetchOk, blobOk) ==
    IF ~fetchOk THEN {"fetchErr"}
    ELSE IF \A b \in Blobs : blobOk[b] THEN {Nil}
    ELSE {"blobErr"}

\* The cases of one ValidateBatch call, over every answer of the chain state
\* and of the validator: the error returned, and whether the fetch and every
\* ValidateBlob passed.
ValidateBatchCases ==
    UNION {{[err |-> e,
             outcome |-> IF fetchOk /\ (\A b \in Blobs : blobOk[b])
                         THEN "pass" ELSE "fail"] :
                e \in ValidateBatchResults(fetchOk, blobOk)} :
           fetchOk \in BOOLEAN, blobOk \in [Blobs -> BOOLEAN]}

NoRet == [sig |-> "none", err |-> "none"]
\* A storeResult (lines 251-258): keys is a pointer, nil (keysNil) or a key set.
NoRes == [err |-> "none", keysNil |-> TRUE, keys |-> {}]

\* ---------------------------------------------------------------- ProcessBatch
\* Lines 231-244: record "received", compute the header hash; on a hash error
\* return it (the header has no hash, hdr keeps its initial value).
BeginFail(c) ==
    /\ pc[c] = "idle"
    /\ stages' = [stages EXCEPT ![c] = <<"received">>]
    /\ err' = [err EXCEPT ![c] = "hashErr"]
    /\ ret' = [ret EXCEPT ![c] = [sig |-> Nil, err |-> "hashErr"]]
    /\ pc' = [pc EXCEPT ![c] = "done"]
    /\ UNCHANGED <<store, hdr, gpc, gres, storeOutcome, valOutcome, delCalls,
                   priorDone, storeAtRet>>
    /\ UNCHANGED notBatch

\* Lines 231-277: record "received", compute the header hash, launch the
\* store goroutine.
Begin(c) ==
    /\ pc[c] = "idle"
    /\ \E h \in Headers :
        /\ hdr' = [hdr EXCEPT ![c] = h]
    /\ stages' = [stages EXCEPT ![c] = <<"received">>]
    /\ err' = [err EXCEPT ![c] = Nil]
    /\ gpc' = [gpc EXCEPT ![c] = "store"]
    /\ pc' = [pc EXCEPT ![c] = "validate"]
    /\ priorDone' = [priorDone EXCEPT ![c] = {d \in Calls : pc[d] = "done"}]
    /\ UNCHANGED <<store, gres, ret, storeOutcome, valOutcome, delCalls, storeAtRet>>
    /\ UNCHANGED notBatch

\* The store goroutine without the ErrBatchAlreadyExist case of lines 266-267:
\* an existing batch is reported as a store error.
GoStoreBatch_ExistsIsError(c) ==
    /\ gpc[c] = "store"
    /\ \E o \in StoreBatchOutcomes(store, hdr[c]) :
        /\ store' = StoreBatchWrite(store, hdr[c], o)
        /\ storeOutcome' = [storeOutcome EXCEPT ![c] = o]
        /\ gres' = [gres EXCEPT ![c] =
              CASE o = "exists" -> [err |-> "storeErr", keysNil |-> TRUE, keys |-> {}]
                [] o = "failed" -> [err |-> "storeErr", keysNil |-> TRUE, keys |-> {}]
                [] o = "fresh"  -> [err |-> Nil, keysNil |-> FALSE, keys |-> Keys(hdr[c])]]
        /\ stages' = [stages EXCEPT ![c] =
              IF o = "fresh" THEN Append(@, "stored") ELSE @]
    /\ gpc' = [gpc EXCEPT ![c] = "send"]
    /\ UNCHANGED <<pc, hdr, err, ret, valOutcome, delCalls, priorDone, storeAtRet>>
    /\ UNCHANGED notBatch

\* Lines 262-276, the store goroutine up to its send: StoreBatch, then the
\* storeResult it will send (ErrBatchAlreadyExist is normalised to no error
\* and no keys; "stored" is recorded only on a fresh write).
GoStoreBatch(c) ==
    /\ gpc[c] = "store"
    /\ \E o \in StoreBatchOutcomes(store, hdr[c]) :
        /\ store' = StoreBatchWrite(store, hdr[c], o)
        /\ storeOutcome' = [storeOutcome EXCEPT ![c] = o]
        /\ gres' = [gres EXCEPT ![c] =
              CASE o = "exists" -> [err |-> Nil, keysNil |-> TRUE, keys |-> {}]
                [] o = "failed" -> [err |-> "storeErr", keysNil |-> TRUE, keys |-> {}]
                [] o = "fresh"  -> [err |-> Nil, keysNil |-> FALSE, keys |-> Keys(hdr[c])]]
        /\ stages' = [stages EXCEPT ![c] =
              IF o = "fresh" THEN Append(@, "stored") ELSE @]
    /\ gpc' = [gpc EXCEPT ![c] = "send"]
    /\ UNCHANGED <<pc, hdr, err, ret, valOutcome, delCalls, priorDone, storeAtRet>>
    /\ UNCHANGED notBatch

\* Lines 281-295: err = n.ValidateBatch(...); on success record "validated".
Validate(c) ==
    /\ pc[c] = "validate"
    /\ \E v \in ValidateBatchCases :
        /\ err' = [err EXCEPT ![c] = v.err]
        /\ valOutcome' = [valOutcome EXCEPT ![c] = v.outcome]
        /\ pc' = [pc EXCEPT ![c] = IF v.err = Nil THEN "recv" ELSE "recvInvalid"]
        /\ stages' = [stages EXCEPT ![c] =
              IF v.err = Nil THEN Append(@, "validated") ELSE @]
    /\ UNCHANGED <<store, hdr, gpc, gres, ret, storeOutcome, delCalls, priorDone,
                   storeAtRet>>
    /\ UNCHANGED notBatch

\* RecvInvalid without the result.keys != nil test of line 286: the rollback
\* runs whatever StoreBatch returned.
RecvInvalid_NoKeysTest(c) ==
    /\ pc[c] = "recvInvalid"
    /\ gpc[c] = "send"
    /\ gpc' = [gpc EXCEPT ![c] = "exit"]
    /\ pc' = [pc EXCEPT ![c] = "rollback"]
    /\ UNCHANGED <<store, hdr, err, gres, ret, stages, storeOutcome, valOutcome,
                   delCalls, priorDone, storeAtRet>>
    /\ UNCHANGED notBatch

\* RecvInvalid with the test of line 286 inverted: a fresh write is never
\* rolled back.
RecvInvalid_NoRollback(c) ==
    /\ pc[c] = "recvInvalid"
    /\ gpc[c] = "send"
    /\ gpc' = [gpc EXCEPT ![c] = "exit"]
    /\ IF gres[c].keysNil
       THEN /\ pc' = [pc EXCEPT ![c] = "rollback"]
            /\ UNCHANGED <<ret, storeAtRet>>
       ELSE /\ pc' = [pc EXCEPT ![c] = "done"]
            /\ ret' = [ret EXCEPT ![c] = [sig |-> Nil, err |-> "validateErr"]]
            /\ storeAtRet' = [storeAtRet EXCEPT ![c] = store]
    /\ UNCHANGED <<store, hdr, err, gres, stages, storeOutcome, valOutcome, delCalls,
                   priorDone>>
    /\ UNCHANGED notBatch

\* ProcessBatch returning the validation error at line 282 without the
\* receive of line 285: the store goroutine is left behind.
RecvInvalid_NoRecv(c) ==
    /\ pc[c] = "recvInvalid"
    /\ pc' = [pc EXCEPT ![c] = "done"]
    /\ ret' = [ret EXCEPT ![c] = [sig |-> Nil, err |-> "validateErr"]]
    /\ storeAtRet' = [storeAtRet EXCEPT ![c] = store]
    /\ UNCHANGED <<store, hdr, err, gpc, gres, stages, storeOutcome, valOutcome,
                   delCalls, priorDone>>
    /\ UNCHANGED notBatch

\* Lines 285-286 and 291: after a validation failure receive the store result;
\* with no keys return the validation error at once.
RecvInvalid(c) ==
    /\ pc[c] = "recvInvalid"
    /\ gpc[c] = "send"
    /\ gpc' = [gpc EXCEPT ![c] = "exit"]
    /\ IF ~gres[c].keysNil
       THEN /\ pc' = [pc EXCEPT ![c] = "rollback"]
            /\ UNCHANGED <<ret, storeAtRet>>
       ELSE /\ pc' = [pc EXCEPT ![c] = "done"]
            /\ ret' = [ret EXCEPT ![c] = [sig |-> Nil, err |-> "validateErr"]]
            /\ storeAtRet' = [storeAtRet EXCEPT ![c] = store]
    /\ UNCHANGED <<store, hdr, err, gres, stages, storeOutcome, valOutcome, delCalls,
                   priorDone>>
    /\ UNCHANGED notBatch

\* Lines 287-291: DeleteKeys(result.keys), a failure is only logged; return
\* the validation error.
Rollback(c) ==
    /\ pc[c] = "rollback"
    /\ \E ok \in BOOLEAN :
        /\ store' = DeleteKeys(store, gres[c].keys, ok)
        /\ delCalls' = [delCalls EXCEPT ![c] =
              Append(@, [keys |-> gres[c].keys, ok |-> ok])]
    /\ pc' = [pc EXCEPT ![c] = "done"]
    /\ ret' = [ret EXCEPT ![c] = [sig |-> Nil, err |-> "validateErr"]]
    /\ storeAtRet' = [storeAtRet EXCEPT ![c] = store']
    /\ UNCHANGED <<hdr, err, gpc, gres, stages, storeOutcome, valOutcome, priorDone>>
    /\ UNCHANGED notBatch

\* ProcessBatch without the blocking receive of line 298: after a successful
\* validation it takes the store result only if it is already there, and
\* signs unless a store error is known.
RecvValid_NoWait(c) ==
    /\ pc[c] = "recv"
    /\ gpc' = [gpc EXCEPT ![c] = IF @ = "send" THEN "exit" ELSE @]
    /\ pc' = [pc EXCEPT ![c] = "done"]
    /\ IF gpc[c] = "send" /\ gres[c].err # Nil
       THEN /\ ret' = [ret EXCEPT ![c] = [sig |-> Nil, err |-> err[c]]]
            /\ UNCHANGED stages
       ELSE /\ ret' = [ret EXCEPT ![c] = [sig |-> "sig", err |-> Nil]]
            /\ stages' = [stages EXCEPT ![c] = Append(@, "signed")]
    /\ storeAtRet' = [storeAtRet EXCEPT ![c] = store]
    /\ UNCHANGED <<store, hdr, err, gres, storeOutcome, valOutcome, delCalls, priorDone>>
    /\ UNCHANGED notBatch

\* RecvValid without the result.err test of lines 299-301: signs whatever
\* StoreBatch returned.
RecvValid_NoErrTest(c) ==
    /\ pc[c] = "recv"
    /\ gpc[c] = "send"
    /\ gpc' = [gpc EXCEPT ![c] = "exit"]
    /\ pc' = [pc EXCEPT ![c] = "done"]
    /\ ret' = [ret EXCEPT ![c] = [sig |-> "sig", err |-> Nil]]
    /\ stages' = [stages EXCEPT ![c] = Append(@, "signed")]
    /\ storeAtRet' = [storeAtRet EXCEPT ![c] = store]
    /\ UNCHANGED <<store, hdr, err, gres, storeOutcome, valOutcome, delCalls, priorDone>>
    /\ UNCHANGED notBatch

\* Lines 298-314: receive the store result; on a store error return
\* (nil, err) with the local err, which holds ValidateBatch's nil; otherwise
\* sign, record "signed" and return the signature.
RecvValid(c) ==
    /\ pc[c] = "recv"
    /\ gpc[c] = "send"
    /\ gpc' = [gpc EXCEPT ![c] = "exit"]
    /\ pc' = [pc EXCEPT ![c] = "done"]
    /\ IF gres[c].err # Nil
       THEN /\ ret' = [ret EXCEPT ![c] = [sig |-> Nil, err |-> err[c]]]
            /\ UNCHANGED stages
       ELSE /\ ret' = [ret EXCEPT ![c] = [sig |-> "sig", err |-> Nil]]
            /\ stages' = [stages EXCEPT ![c] = Append(@, "signed")]
    /\ storeAtRet' = [storeAtRet EXCEPT ![c] = store]
    /\ UNCHANGED <<store, hdr, err, gres, storeOutcome, valOutcome, delCalls, priorDone>>
    /\ UNCHANGED notBatch

InitBatch ==
    /\ store = {}
    /\ pc = [c \in Calls |-> "idle"]
    /\ hdr = [c \in Calls |-> 1]
    /\ err = [c \in Calls |-> Nil]
    /\ gpc = [c \in Calls |-> "none"]
    /\ gres = [c \in Calls |-> NoRes]
    /\ ret = [c \in Calls |-> NoRet]
    /\ stages = [c \in Calls |-> <<>>]
    /\ storeOutcome = [c \in Calls |-> "none"]
    /\ valOutcome = [c \in Calls |-> "none"]
    /\ delCalls = [c \in Calls |-> <<>>]
    /\ priorDone = [c \in Calls |-> {}]
    /\ storeAtRet = [c \in Calls |-> {}]

NextBatch ==
    \E c \in Calls :
        \/ BeginFail(c)
        \/ Begin(c)
        \/ GoStoreBatch(c)
        \/ Validate(c)
        \/ RecvInvalid(c)
        \/ Rollback(c)
        \/ RecvValid(c)

\* ---------------------------------------------------------------- ValidateBatch
\* Upper bound on Config.NumBatchValidators.
MaxValidators == 2

\* The value a validation job sends on out: 0 for nil, b for the error of
\* blob b (Validator.ValidateBlob failed).
JobResult(b) == IF vBlobOk[b] THEN 0 ELSE b

\* A return value of ValidateBatch: nil, the fetch error, or the error of a
\* blob.
Ret(kind, b) == [kind |-> kind, blob |-> b]

Running == {b \in Blobs : job[b] = "running"}
Queued == {b \in Blobs : job[b] = "queued"}

\* Lines 318-323: fetch the operator state; on an error return it, otherwise
\* create the pool and the channel out.
VFetch ==
    /\ vpc = "fetch"
    /\ IF vFetchOk
       THEN /\ vpc' = (IF vN = 0 THEN "collect" ELSE "submit")
            /\ UNCHANGED vRet
       ELSE /\ vpc' = "returned"
            /\ vRet' = Ret("fetchErr", 0)
    /\ UNCHANGED <<vN, vWorkers, vFetchOk, vBlobOk, vSub, job, out, vi>>
    /\ UNCHANGED notVal

\* Lines 325-330: one iteration of the submit loop, pool.Submit of the job
\* of the next blob.
VSubmit ==
    /\ vpc = "submit"
    /\ vSub < vN
    /\ vSub' = vSub + 1
    /\ job' = [job EXCEPT ![vSub + 1] = "queued"]
    /\ vpc' = (IF vSub + 1 = vN THEN "collect" ELSE "submit")
    /\ UNCHANGED <<vN, vWorkers, vFetchOk, vBlobOk, out, vi, vRet>>
    /\ UNCHANGED notVal

\* A pool without the bound of line 323: a queued job starts at once.
VStartJob_NoLimit(b) ==
    /\ job[b] = "queued"
    /\ \A q \in Queued : b <= q
    /\ job' = [job EXCEPT ![b] = "running"]
    /\ UNCHANGED <<vN, vWorkers, vFetchOk, vBlobOk, vpc, vSub, out, vi, vRet>>
    /\ UNCHANGED notVal

\* workerpool: the oldest queued job starts when fewer than NumBatchValidators
\* jobs are running.
VStartJob(b) ==
    /\ job[b] = "queued"
    /\ \A q \in Queued : b <= q
    /\ Cardinality(Running) < vWorkers
    /\ job' = [job EXCEPT ![b] = "running"]
    /\ UNCHANGED <<vN, vWorkers, vFetchOk, vBlobOk, vpc, vSub, out, vi, vRet>>
    /\ UNCHANGED notVal

\* validateBlob sending on an unbuffered out (line 324 without the capacity
\* len(blobs)): the send completes only while ValidateBatch is receiving.
VFinishJob_Unbuffered(b) ==
    /\ job[b] = "running"
    /\ vpc = "collect"
    /\ out = <<>>
    /\ out' = Append(out, JobResult(b))
    /\ job' = [job EXCEPT ![b] = "done"]
    /\ UNCHANGED <<vN, vWorkers, vFetchOk, vBlobOk, vpc, vSub, vi, vRet>>
    /\ UNCHANGED notVal

\* Lines 445-453, validateBlob: ValidateBlob, then the send on out, which
\* blocks while out holds len(blobs) results.
VFinishJob(b) ==
    /\ job[b] = "running"
    /\ Len(out) < vN
    /\ out' = Append(out, JobResult(b))
    /\ job' = [job EXCEPT ![b] = "done"]
    /\ UNCHANGED <<vN, vWorkers, vFetchOk, vBlobOk, vpc, vSub, vi, vRet>>
    /\ UNCHANGED notVal

\* The collect loop without the err != nil test of lines 334-336.
VCollect_IgnoreErr ==
    /\ vpc = "collect"
    /\ vi < vN
    /\ out # <<>>
    /\ out' = Tail(out)
    /\ vi' = vi + 1
    /\ UNCHANGED <<vpc, vRet>>
    /\ UNCHANGED <<vN, vWorkers, vFetchOk, vBlobOk, vSub, job>>
    /\ UNCHANGED notVal

\* Lines 332-337: one iteration of the collect loop, receive a result and
\* return it when it is an error.
VCollect ==
    /\ vpc = "collect"
    /\ vi < vN
    /\ out # <<>>
    /\ out' = Tail(out)
    /\ IF Head(out) # 0
       THEN /\ vpc' = "returned"
            /\ vRet' = Ret("blobErr", Head(out))
            /\ UNCHANGED vi
       ELSE /\ vi' = vi + 1
            /\ UNCHANGED <<vpc, vRet>>
    /\ UNCHANGED <<vN, vWorkers, vFetchOk, vBlobOk, vSub, job>>
    /\ UNCHANGED notVal

\* Line 339: every result was nil.
VReturnNil ==
    /\ vpc = "collect"
    /\ vi = vN
    /\ vpc' = "returned"
    /\ vRet' = Ret(Nil, 0)
    /\ UNCHANGED <<vN, vWorkers, vFetchOk, vBlobOk, vSub, job, out, vi>>
    /\ UNCHANGED notVal

IdleVal ==
    /\ vN = 0
    /\ vWorkers = 1
    /\ vFetchOk = TRUE
    /\ vBlobOk = [b \in Blobs |-> TRUE]
    /\ vpc = "fetch"
    /\ vSub = 0
    /\ job = [b \in Blobs |-> "none"]
    /\ out = <<>>
    /\ vi = 0
    /\ vRet = Ret("none", 0)

InitVal ==
    /\ vN \in 0..MaxBlobs
    /\ vWorkers \in 1..MaxValidators
    /\ vFetchOk \in BOOLEAN
    /\ vBlobOk \in {f \in [Blobs -> BOOLEAN] : \A b \in Blobs : b > vN => f[b]}
    /\ vpc = "fetch"
    /\ vSub = 0
    /\ job = [b \in Blobs |-> "none"]
    /\ out = <<>>
    /\ vi = 0
    /\ vRet = Ret("none", 0)

NextVal ==
    \/ VFetch
    \/ VSubmit
    \/ \E b \in Blobs : VStartJob(b)
    \/ \E b \in Blobs : VFinishJob(b)
    \/ VCollect
    \/ VReturnNil

\* ---------------------------------------------------------------- expireLoop
\* Upper bound on Config.ExpirationPollIntervalSec.
MaxPollIntervalSec == 25
\* Cap on the sweeps counted.
MaxSweeps == 2

\* gcPercentageTime (line 33), 0.1, as a number of tenths.
gcPercentageTimeTenths == 1

\* math.Max on values held in tenths of a second.
MathMax(a, b) == IF a > b THEN a ELSE b

\* Line 208 without math.Max: no floor of one second.
TimeLimitSec_NoFloor(p) == (p * gcPercentageTimeTenths) \div 10

\* Line 208: uint64(math.Max(float64(p)*gcPercentageTime, 1.0)). The product
\* and the maximum are held in tenths of a second; the conversion to uint64
\* drops the fraction.
TimeLimitSec(p) == MathMax(p * gcPercentageTimeTenths, 10) \div 10

\* The ticker fires; ticker.C holds one tick, a tick that finds it full is
\* dropped.
Tick ==
    /\ tick = 0
    /\ tick' = 1
    /\ UNCHANGED <<pollIntervalSec, epc, timeLimitSec, inFlight, sweepsStarted,
                   ticksTaken, lastSweep>>
    /\ UNCHANGED notExpire

\* expireLoop with `go` before the call of line 209: every tick starts a sweep
\* whether or not the previous one has returned.
SweepBegin_Spawn ==
    /\ tick = 1
    /\ sweepsStarted < MaxSweeps
    /\ tick' = 0
    /\ ticksTaken' = ticksTaken + 1
    /\ timeLimitSec' = TimeLimitSec(pollIntervalSec)
    /\ inFlight' = inFlight + 1
    /\ sweepsStarted' = sweepsStarted + 1
    /\ epc' = "sweeping"
    /\ UNCHANGED <<pollIntervalSec, lastSweep>>
    /\ UNCHANGED notExpire

\* Lines 202-209: receive a tick, compute the budget, call
\* DeleteExpiredEntries.
SweepBegin ==
    /\ epc = "waiting"
    /\ tick = 1
    /\ sweepsStarted < MaxSweeps
    /\ tick' = 0
    /\ ticksTaken' = ticksTaken + 1
    /\ timeLimitSec' = TimeLimitSec(pollIntervalSec)
    /\ inFlight' = inFlight + 1
    /\ sweepsStarted' = sweepsStarted + 1
    /\ epc' = "sweeping"
    /\ UNCHANGED <<pollIntervalSec, lastSweep>>
    /\ UNCHANGED notExpire

\* Lines 209-217: DeleteExpiredEntries returns (nil, context.DeadlineExceeded
\* or another error); the outcome is logged and the loop waits again.
SweepEnd ==
    /\ epc = "sweeping"
    /\ \E r \in {"ok", "deadline", "error"} : lastSweep' = r
    /\ inFlight' = inFlight - 1
    /\ epc' = "waiting"
    /\ UNCHANGED <<pollIntervalSec, tick, timeLimitSec, sweepsStarted, ticksTaken>>
    /\ UNCHANGED notExpire

IdleExpire ==
    /\ pollIntervalSec = 1
    /\ epc = "waiting"
    /\ tick = 0
    /\ timeLimitSec = 0
    /\ inFlight = 0
    /\ sweepsStarted = 0
    /\ ticksTaken = 0
    /\ lastSweep = "none"

InitExpire ==
    /\ pollIntervalSec \in 1..MaxPollIntervalSec
    /\ epc = "waiting"
    /\ tick = 0
    /\ timeLimitSec = 0
    /\ inFlight = 0
    /\ sweepsStarted = 0
    /\ ticksTaken = 0
    /\ lastSweep = "none"

NextExpire ==
    \/ Tick
    \/ SweepBegin
    \/ SweepEnd

\* ---------------------------------------------------------------- socket reconciler
\* Number of distinct socket strings.
NumSockets == 3
\* Upper bound on Config.PubIPCheckInterval.
MaxPubIPCheckInterval == 1

Sockets == 1..NumSockets

WatchersLaunched == chainPc # "off" \/ pollPc # "off"

\* A write to CurrentSocket by writer w, as logged in writeLog.
Write(w) == [by |-> w, held |-> (mu = w), watchers |-> WatchersLaunched]

\* Lines 167-183: RegisterOperator fails and Start returns its error.
StartRegisterFail ==
    /\ startPc = "init"
    /\ registerAtStart
    /\ startPc' = "failed"
    /\ UNCHANGED <<CurrentSocket, mu, cfgSocket, pubIPCheckInterval, registerAtStart,
                   chainPc, chainEv, pollPc, pollSocket, timer, cancelled, onchain,
                   processedEvents, updatedOk, updateCalls, lastPoll, socketChanges,
                   writeLog>>
    /\ UNCHANGED notSocket

\* Lines 165-185: build the socket, register it when configured to, and
\* assign n.CurrentSocket.
StartAssign ==
    /\ startPc = "init"
    /\ CurrentSocket' = cfgSocket
    /\ writeLog' = writeLog \cup {Write("start")}
    /\ onchain' = (IF registerAtStart THEN cfgSocket ELSE onchain)
    /\ startPc' = "assigned"
    /\ UNCHANGED <<mu, cfgSocket, pubIPCheckInterval, registerAtStart, chainPc,
                   chainEv, pollPc, pollSocket, timer, cancelled, processedEvents,
                   updatedOk, updateCalls, lastPoll, socketChanges>>
    /\ UNCHANGED notSocket

\* Start without the test of line 187: both watchers are launched whatever
\* PubIPCheckInterval is.
StartLaunch_NoIntervalTest ==
    /\ startPc = "assigned"
    /\ startPc' = "returned"
    /\ chainPc' = "subscribe"
    /\ pollPc' = "select"
    /\ timer' = "armed"
    /\ UNCHANGED <<CurrentSocket, mu, cfgSocket, pubIPCheckInterval, registerAtStart,
                   chainEv, pollSocket, cancelled, onchain, processedEvents,
                   updatedOk, updateCalls, lastPoll, socketChanges, writeLog>>
    /\ UNCHANGED notSocket

\* Lines 187-192: launch both watchers when PubIPCheckInterval > 0; return.
\* checkCurrentNodeIp creates its timer (line 382).
StartLaunch ==
    /\ startPc = "assigned"
    /\ startPc' = "returned"
    /\ IF pubIPCheckInterval > 0
       THEN /\ chainPc' = "subscribe"
            /\ pollPc' = "select"
            /\ timer' = "armed"
       ELSE UNCHANGED <<chainPc, pollPc, timer>>
    /\ UNCHANGED <<CurrentSocket, mu, cfgSocket, pubIPCheckInterval, registerAtStart,
                   chainEv, pollSocket, cancelled, onchain, processedEvents,
                   updatedOk, updateCalls, lastPoll, socketChanges, writeLog>>
    /\ UNCHANGED notSocket

\* The caller cancels ctx.
Cancel ==
    /\ ~cancelled
    /\ cancelled' = TRUE
    /\ UNCHANGED <<CurrentSocket, mu, cfgSocket, pubIPCheckInterval, registerAtStart,
                   startPc, chainPc, chainEv, pollPc, pollSocket, timer, onchain,
                   processedEvents, updatedOk, updateCalls, lastPoll, socketChanges,
                   writeLog>>
    /\ UNCHANGED notSocket

\* Lines 361-364: WatchOperatorSocketUpdate; on an error the watcher returns.
ChainSubscribe ==
    /\ chainPc = "subscribe"
    /\ \E ok \in BOOLEAN : chainPc' = (IF ok THEN "select" ELSE "exited")
    /\ UNCHANGED <<CurrentSocket, mu, cfgSocket, pubIPCheckInterval, registerAtStart,
                   startPc, chainEv, pollPc, pollSocket, timer, cancelled, onchain,
                   processedEvents, updatedOk, updateCalls, lastPoll, socketChanges,
                   writeLog>>
    /\ UNCHANGED notSocket

\* The watcher with a `break` in place of the `return` of line 369: the select
\* is left, the loop is not.
ChainDone_BreakSelect ==
    /\ chainPc = "select"
    /\ cancelled
    /\ chainPc' = "select"
    /\ UNCHANGED <<CurrentSocket, mu, cfgSocket, pubIPCheckInterval, registerAtStart,
                   startPc, chainEv, pollPc, pollSocket, timer, cancelled, onchain,
                   processedEvents, updatedOk, updateCalls, lastPoll, socketChanges,
                   writeLog>>
    /\ UNCHANGED notSocket

\* Lines 368-369: ctx.Done() is selected.
ChainDone ==
    /\ chainPc = "select"
    /\ cancelled
    /\ chainPc' = "exited"
    /\ UNCHANGED <<CurrentSocket, mu, cfgSocket, pubIPCheckInterval, registerAtStart,
                   startPc, chainEv, pollPc, pollSocket, timer, cancelled, onchain,
                   processedEvents, updatedOk, updateCalls, lastPoll, socketChanges,
                   writeLog>>
    /\ UNCHANGED notSocket

\* Line 370: an event is received from socketChan.
ChainRecv ==
    /\ chainPc = "select"
    /\ \E s \in Sockets : chainEv' = s
    /\ chainPc' = "lock"
    /\ UNCHANGED <<CurrentSocket, mu, cfgSocket, pubIPCheckInterval, registerAtStart,
                   startPc, pollPc, pollSocket, timer, cancelled, onchain,
                   processedEvents, updatedOk, updateCalls, lastPoll, socketChanges,
                   writeLog>>
    /\ UNCHANGED notSocket

\* The watcher without the n.mu.Lock() of line 371.
ChainLock_NoLock ==
    /\ chainPc = "lock"
    /\ chainPc' = "locked"
    /\ UNCHANGED <<CurrentSocket, mu, cfgSocket, pubIPCheckInterval, registerAtStart,
                   startPc, chainEv, pollPc, pollSocket, timer, cancelled, onchain,
                   processedEvents, updatedOk, updateCalls, lastPoll, socketChanges,
                   writeLog>>
    /\ UNCHANGED notSocket

\* Line 371: n.mu.Lock().
ChainLock ==
    /\ chainPc = "lock"
    /\ mu = "free"
    /\ mu' = "chain"
    /\ chainPc' = "locked"
    /\ UNCHANGED <<CurrentSocket, cfgSocket, pubIPCheckInterval, registerAtStart,
                   startPc, chainEv, pollPc, pollSocket, timer, cancelled, onchain,
                   processedEvents, updatedOk, updateCalls, lastPoll, socketChanges,
                   writeLog>>
    /\ UNCHANGED notSocket

\* The watcher reconciling through updateSocketAddress's body instead of
\* lines 372-375: a differing event value is also pushed on chain with
\* UpdateOperatorSocket.
ChainCompareWrite_PushOnChain ==
    /\ chainPc = "locked"
    /\ IF chainEv # CurrentSocket
       THEN /\ updateCalls' = [updateCalls EXCEPT !.chain = @ + 1]
            /\ onchain' = chainEv
            /\ CurrentSocket' = chainEv
            /\ writeLog' = writeLog \cup {Write("chain")}
       ELSE UNCHANGED <<CurrentSocket, writeLog, updateCalls, onchain>>
    /\ processedEvents' = processedEvents \cup {chainEv}
    /\ chainPc' = "unlock"
    /\ UNCHANGED <<mu, cfgSocket, pubIPCheckInterval, registerAtStart, startPc,
                   chainEv, pollPc, pollSocket, timer, cancelled, updatedOk,
                   lastPoll, socketChanges>>
    /\ UNCHANGED notSocket

\* Lines 372-375: overwrite CurrentSocket when the event value differs.
ChainCompareWrite ==
    /\ chainPc = "locked"
    /\ IF chainEv # CurrentSocket
       THEN /\ CurrentSocket' = chainEv
            /\ writeLog' = writeLog \cup {Write("chain")}
       ELSE UNCHANGED <<CurrentSocket, writeLog>>
    /\ processedEvents' = processedEvents \cup {chainEv}
    /\ chainPc' = "unlock"
    /\ UNCHANGED <<mu, cfgSocket, pubIPCheckInterval, registerAtStart, startPc,
                   chainEv, pollPc, pollSocket, timer, cancelled, onchain, updatedOk,
                   updateCalls, lastPoll, socketChanges>>
    /\ UNCHANGED notSocket

\* Line 376: n.mu.Unlock().
ChainUnlock ==
    /\ chainPc = "unlock"
    /\ mu' = "free"
    /\ chainPc' = "select"
    /\ UNCHANGED <<CurrentSocket, cfgSocket, pubIPCheckInterval, registerAtStart,
                   startPc, chainEv, pollPc, pollSocket, timer, cancelled, onchain,
                   processedEvents, updatedOk, updateCalls, lastPoll, socketChanges,
                   writeLog>>
    /\ UNCHANGED notSocket

\* The timer t of line 382 expires: t.C holds its one value. The timer is
\* never reset.
TimerFire ==
    /\ timer = "armed"
    /\ timer' = "ready"
    /\ UNCHANGED <<CurrentSocket, mu, cfgSocket, pubIPCheckInterval, registerAtStart,
                   startPc, chainPc, chainEv, pollPc, pollSocket, cancelled, onchain,
                   processedEvents, updatedOk, updateCalls, lastPoll, socketChanges,
                   writeLog>>
    /\ UNCHANGED notSocket

\* Lines 385-386: ctx.Done() is selected.
PollDone ==
    /\ pollPc = "select"
    /\ cancelled
    /\ pollPc' = "exited"
    /\ UNCHANGED <<CurrentSocket, mu, cfgSocket, pubIPCheckInterval, registerAtStart,
                   startPc, chainPc, chainEv, pollSocket, timer, cancelled, onchain,
                   processedEvents, updatedOk, updateCalls, lastPoll, socketChanges,
                   writeLog>>
    /\ UNCHANGED notSocket

\* Lines 387-392: t.C is received and socketAddress fails; continue.
PollTickFail ==
    /\ pollPc = "select"
    /\ timer = "ready"
    /\ timer' = "drained"
    /\ lastPoll' = "lookupFailed"
    /\ UNCHANGED <<CurrentSocket, mu, cfgSocket, pubIPCheckInterval, registerAtStart,
                   startPc, chainPc, chainEv, pollPc, pollSocket, cancelled, onchain,
                   processedEvents, updatedOk, updateCalls, socketChanges, writeLog>>
    /\ UNCHANGED notSocket

\* Lines 387-393: t.C is received, socketAddress returns the socket built
\* from the public IP, updateSocketAddress is called.
PollTick ==
    /\ pollPc = "select"
    /\ timer = "ready"
    /\ timer' = "drained"
    /\ \E s \in Sockets : pollSocket' = s
    /\ pollPc' = "lock"
    /\ UNCHANGED <<CurrentSocket, mu, cfgSocket, pubIPCheckInterval, registerAtStart,
                   startPc, chainPc, chainEv, cancelled, onchain, processedEvents,
                   updatedOk, updateCalls, lastPoll, socketChanges, writeLog>>
    /\ UNCHANGED notSocket

\* updateSocketAddress without the n.mu.Lock() of line 344.
PollLock_NoLock ==
    /\ pollPc = "lock"
    /\ pollPc' = "locked"
    /\ UNCHANGED <<CurrentSocket, mu, cfgSocket, pubIPCheckInterval, registerAtStart,
                   startPc, chainPc, chainEv, pollSocket, timer, cancelled, onchain,
                   processedEvents, updatedOk, updateCalls, lastPoll, socketChanges,
                   writeLog>>
    /\ UNCHANGED notSocket

\* Line 344: n.mu.Lock().
PollLock ==
    /\ pollPc = "lock"
    /\ mu = "free"
    /\ mu' = "poll"
    /\ pollPc' = "locked"
    /\ UNCHANGED <<CurrentSocket, cfgSocket, pubIPCheckInterval, registerAtStart,
                   startPc, chainPc, chainEv, pollSocket, timer, cancelled, onchain,
                   processedEvents, updatedOk, updateCalls, lastPoll, socketChanges,
                   writeLog>>
    /\ UNCHANGED notSocket

\* Lines 346-348: return when the socket is unchanged.
PollCompare ==
    /\ pollPc = "locked"
    /\ pollPc' = (IF pollSocket = CurrentSocket THEN "unlock" ELSE "update")
    /\ lastPoll' = (IF pollSocket = CurrentSocket THEN "same" ELSE lastPoll)
    /\ UNCHANGED <<CurrentSocket, mu, cfgSocket, pubIPCheckInterval, registerAtStart,
                   startPc, chainPc, chainEv, pollSocket, timer, cancelled, onchain,
                   processedEvents, updatedOk, updateCalls, socketChanges, writeLog>>
    /\ UNCHANGED notSocket

\* updateSocketAddress without the return of line 352: CurrentSocket is
\* written whether or not UpdateOperatorSocket succeeded.
PollUpdate_WriteOnFailure ==
    /\ pollPc = "update"
    /\ updateCalls' = [updateCalls EXCEPT !.poll = @ + 1]
    /\ \E ok \in BOOLEAN :
        /\ onchain' = (IF ok THEN pollSocket ELSE onchain)
        /\ updatedOk' = (IF ok THEN updatedOk \cup {pollSocket} ELSE updatedOk)
        /\ socketChanges' = socketChanges + 1
        /\ CurrentSocket' = pollSocket
        /\ writeLog' = writeLog \cup {Write("poll")}
        /\ lastPoll' = (IF ok THEN "updated" ELSE "updateFailed")
    /\ pollPc' = "unlock"
    /\ UNCHANGED <<mu, cfgSocket, pubIPCheckInterval, registerAtStart, startPc,
                   chainPc, chainEv, pollSocket, timer, cancelled, processedEvents>>
    /\ UNCHANGED notSocket

\* Lines 350-357: UpdateOperatorSocket; on an error return, otherwise record
\* the change and assign n.CurrentSocket.
PollUpdate ==
    /\ pollPc = "update"
    /\ updateCalls' = [updateCalls EXCEPT !.poll = @ + 1]
    /\ \E ok \in BOOLEAN :
        IF ok
        THEN /\ onchain' = pollSocket
             /\ updatedOk' = updatedOk \cup {pollSocket}
             /\ socketChanges' = socketChanges + 1
             /\ CurrentSocket' = pollSocket
             /\ writeLog' = writeLog \cup {Write("poll")}
             /\ lastPoll' = "updated"
        ELSE /\ lastPoll' = "updateFailed"
             /\ UNCHANGED <<onchain, updatedOk, socketChanges, CurrentSocket, writeLog>>
    /\ pollPc' = "unlock"
    /\ UNCHANGED <<mu, cfgSocket, pubIPCheckInterval, registerAtStart, startPc,
                   chainPc, chainEv, pollSocket, timer, cancelled, processedEvents>>
    /\ UNCHANGED notSocket

\* Line 345: the deferred n.mu.Unlock(); back to the select of line 384.
PollUnlock ==
    /\ pollPc = "unlock"
    /\ mu' = "free"
    /\ pollPc' = "select"
    /\ UNCHANGED <<CurrentSocket, cfgSocket, pubIPCheckInterval, registerAtStart,
                   startPc, chainPc, chainEv, pollSocket, timer, cancelled, onchain,
                   processedEvents, updatedOk, updateCalls, lastPoll, socketChanges,
                   writeLog>>
    /\ UNCHANGED notSocket

IdleSocket ==
    /\ CurrentSocket = 0
    /\ mu = "free"
    /\ cfgSocket = 1
    /\ pubIPCheckInterval = 0
    /\ registerAtStart = FALSE
    /\ startPc = "init"
    /\ chainPc = "off"
    /\ chainEv = 0
    /\ pollPc = "off"
    /\ pollSocket = 0
    /\ timer = "none"
    /\ cancelled = FALSE
    /\ onchain = 0
    /\ processedEvents = {}
    /\ updatedOk = {}
    /\ updateCalls = [chain |-> 0, poll |-> 0]
    /\ lastPoll = "none"
    /\ socketChanges = 0
    /\ writeLog = {}

InitSocket ==
    /\ CurrentSocket = 0
    /\ mu = "free"
    /\ cfgSocket \in Sockets
    /\ pubIPCheckInterval \in 0..MaxPubIPCheckInterval
    /\ registerAtStart \in BOOLEAN
    /\ startPc = "init"
    /\ chainPc = "off"
    /\ chainEv = 0
    /\ pollPc = "off"
    /\ pollSocket = 0
    /\ timer = "none"
    /\ cancelled = FALSE
    /\ onchain = 0
    /\ processedEvents = {}
    /\ updatedOk = {}
    /\ updateCalls = [chain |-> 0, poll |-> 0]
    /\ lastPoll = "none"
    /\ socketChanges = 0
    /\ writeLog = {}

NextSocket ==
    \/ StartRegisterFail
    \/ StartAssign
    \/ StartLaunch
    \/ Cancel
    \/ ChainSubscribe
    \/ ChainDone
    \/ ChainRecv
    \/ ChainLock
    \/ ChainCompareWrite
    \/ ChainUnlock
    \/ TimerFire
    \/ PollDone
    \/ PollTickFail
    \/ PollTick
    \/ PollLock
    \/ PollCompare
    \/ PollUpdate
    \/ PollUnlock

Init == InitBatch /\ IdleVal /\ IdleExpire /\ IdleSocket

Spec == Init /\ [][NextBatch]_vars

InitValidate == InitBatch /\ InitVal /\ IdleExpire /\ IdleSocket

SpecValidate == InitValidate /\ [][NextVal]_vars

\* A step of the worker pool: a job starts or finishes.
PoolStep == \E b \in Blobs : VStartJob(b) \/ VFinishJob(b)

\* The pool's goroutines are scheduled whenever one of them can take a step;
\* they live on after ValidateBatch has returned (the pool is never stopped).
SpecValidateFair == InitValidate /\ [][NextVal]_vars /\ WF_vars(PoolStep)

InitSweeper == InitBatch /\ IdleVal /\ InitExpire /\ IdleSocket

SpecExpire == InitSweeper /\ [][NextExpire]_vars

InitReconciler == InitBatch /\ IdleVal /\ IdleExpire /\ InitSocket

SpecSocket == InitReconciler /\ [][NextSocket]_vars

\* The steps of checkRegisteredNodeIpOnChain that wait for nothing but the
\* scheduler or the mutex.
ChainStep == ChainSubscribe \/ ChainLock \/ ChainCompareWrite \/ ChainUnlock

\* The steps of checkCurrentNodeIp that wait for nothing but the scheduler.
PollStep == PollDone \/ PollCompare \/ PollUpdate \/ PollUnlock

\* The Go scheduler runs every goroutine that can take a step (weak
\* fairness). A select with several ready cases picks among them at random,
\* so the ctx.Done() case of the on-chain watcher, ready every time the loop
\* comes back to the select, is eventually taken; sync.Mutex hands the lock
\* to a goroutine that keeps waiting for it (strong fairness for both).
FairWatchers ==
    /\ WF_vars(ChainStep)
    /\ SF_vars(ChainDone)
    /\ WF_vars(PollStep)
    /\ SF_vars(PollLock)

SpecSocketFair == InitReconciler /\ [][NextSocket]_vars /\ FairWatchers

\* ================================================================ claims
Done(c) == pc[c] = "done"

\* C1: a ProcessBatch call that returned has a non-null signature if and only
\* if its StoreBatch succeeded (fresh write or ErrBatchAlreadyExist) and the
\* operator state fetch and every ValidateBlob passed; otherwise the
\* signature is nil.
C1_SignatureGating ==
    \A c \in Calls :
        Done(c) =>
            /\ ret[c].sig \in {"sig", Nil}
            /\ ret[c].sig = "sig" <=>
                  (storeOutcome[c] \in {"fresh", "exists"} /\ valOutcome[c] = "pass")

\* A call returned a signature for a batch that already existed, and another
\* call returned no signature.
C1_Witness ==
    \E c, d \in Calls :
        /\ Done(c) /\ ret[c].sig = "sig" /\ storeOutcome[c] = "exists"
        /\ Done(d) /\ ret[d].sig = Nil

\* C2: a call whose StoreBatch failed with a genuine error while validation
\* passed returns a non-nil error, and no call returns a nil signature
\* together with a nil error.
C2_StorageFailureReported ==
    \A c \in Calls :
        Done(c) =>
            /\ (storeOutcome[c] = "failed" /\ valOutcome[c] = "pass") => ret[c].err # Nil
            /\ ~(ret[c].sig = Nil /\ ret[c].err = Nil)

C4_SignedImpliesStored ==
    \A c \in Calls :
        (Done(c) /\ ret[c].sig = "sig") => Keys(hdr[c]) \subseteq storeAtRet[c]

\* C5: a call whose StoreBatch reported ErrBatchAlreadyExist never calls
\* DeleteKeys and none of its steps changes the store; a call invokes
\* DeleteKeys at most once, only after a validation failure, and only with
\* the keys its own fresh StoreBatch returned.
C5_DeleteKeysFrame ==
    \A c \in Calls :
        /\ Len(delCalls[c]) <= 1
        /\ storeOutcome[c] \in {"exists", "failed"} => delCalls[c] = <<>>
        /\ Len(delCalls[c]) = 1 =>
              /\ valOutcome[c] = "fail"
              /\ storeOutcome[c] = "fresh"
              /\ delCalls[c][1].keys = Keys(hdr[c])

C5_ExistsLeavesStore ==
    \A c \in Calls :
        (storeOutcome'[c] = "exists" /\ (pc'[c] # pc[c] \/ gpc'[c] # gpc[c])) =>
            store' = store

C5_RollbackOnlyOwnFreshKeys == [](C5_DeleteKeysFrame) /\ [][C5_ExistsLeavesStore]_vars

\* A call that found the batch already stored returned the validation error
\* with the keys another call wrote still in the store.
C5_Witness ==
    \E c \in Calls :
        /\ Done(c) /\ storeOutcome[c] = "exists" /\ valOutcome[c] = "fail"
        /\ delCalls[c] = <<>>
        /\ Keys(hdr[c]) \subseteq store

\* The second of two submissions, in sequence, of the same batch, with no
\* other call started, validation passing both times and no StoreBatch
\* failing with a genuine error.
TwiceInSequence(c, d) ==
    /\ c # d /\ Done(c) /\ Done(d)
    /\ c \in priorDone[d]
    /\ hdr[c] = hdr[d]
    /\ valOutcome[c] = "pass" /\ valOutcome[d] = "pass"
    /\ storeOutcome[c] # "failed" /\ storeOutcome[d] # "failed"
    /\ \A e \in Calls \ {c, d} : pc[e] = "idle"

\* C6: the same batch submitted twice in sequence with validation passing
\* both times is stored once: the second call returns a signature and the
\* store after the second call equals the store after the first.
C6_Idempotence ==
    \A c, d \in Calls :
        TwiceInSequence(c, d) =>
            /\ ret[c].sig = "sig" /\ ret[d].sig = "sig"
            /\ storeOutcome[c] = "fresh" /\ storeOutcome[d] = "exists"
            /\ storeAtRet[d] = storeAtRet[c]
            /\ storeAtRet[d] = Keys(hdr[d])

C6_Witness ==
    \E c, d \in Calls : TwiceInSequence(c, d) /\ ret[d].sig = "sig"

\* The result of the fan-out is one that Validate, the step of ProcessBatch,
\* may take for the same collaborator answers.
ValidateRefinesResults ==
    (vpc = "returned" /\ vN = MaxBlobs) =>
        vRet.kind \in ValidateBatchResults(vFetchOk, vBlobOk)

\* C7: ValidateBatch returns nil if and only if the operator state fetch
\* succeeded and every blob passed ValidateBlob; with a failing blob it
\* returns the error of a failing blob, in whatever order the results arrive.
C7_ValidateBatchAllOrNothing ==
    vpc = "returned" =>
        /\ vRet.kind \in {Nil, "fetchErr", "blobErr"}
        /\ vRet.kind = Nil <=> (vFetchOk /\ \A b \in 1..vN : vBlobOk[b])
        /\ vRet.kind = "blobErr" => (vRet.blob \in 1..vN /\ ~vBlobOk[vRet.blob])
        /\ vRet.kind = "fetchErr" <=> ~vFetchOk

\* The error of blob 1 was returned after the nil result of blob 2, which
\* arrived first.
C7_Witness ==
    /\ vpc = "returned"
    /\ vN = 2
    /\ vRet = Ret("blobErr", 1)
    /\ vi = 1
    /\ vBlobOk[2]

\* C8 as stated: the budget passed to DeleteExpiredEntries is max(0.1*P, 1)
\* seconds (compared in tenths of a second).
C8_BudgetIsMaxTenthOrOne ==
    sweepsStarted > 0 =>
        10 * timeLimitSec = (IF pollIntervalSec > 10 THEN pollIntervalSec ELSE 10)

\* C8 amended: the budget is max(0.1*P, 1) seconds with the fraction dropped,
\* a whole number of seconds: 1 for P < 10, otherwise the k with
\* 10k <= P < 10k + 10.
C8_BudgetWholeSeconds ==
    sweepsStarted > 0 =>
        /\ timeLimitSec >= 1
        /\ pollIntervalSec < 10 => timeLimitSec = 1
        /\ pollIntervalSec >= 10 =>
              /\ 10 * timeLimitSec <= pollIntervalSec
              /\ pollIntervalSec < 10 * timeLimitSec + 10

\* A sweep with poll interval 15 runs with a budget of 1 second.
C8_Witness ==
    /\ epc = "sweeping"
    /\ pollIntervalSec = 15
    /\ timeLimitSec = 1

\* C9 as stated: every write to CurrentSocket, by Start, by the on-chain
\* watcher or by the local-IP poll, is made holding the node's mutex.
C9_AllWritesUnderMutex ==
    \A w \in writeLog : w.held

\* C9 amended: every write by the on-chain watcher and by the local-IP poll
\* is made holding the mutex; the write in Start is made without it, before
\* either watcher is launched.
C9_WatcherWritesUnderMutex ==
    \A w \in writeLog :
        /\ w.by \in {"start", "chain", "poll"}
        /\ w.by \in {"chain", "poll"} => w.held
        /\ w.by = "start" => (~w.held /\ ~w.watchers)

\* All three writers have written CurrentSocket.
C9_Witness ==
    {w.by : w \in writeLog} = {"start", "chain", "poll"}

\* CurrentSocket, once Start has assigned it, is the startup socket, the
\* value of a processed event or a socket UpdateOperatorSocket accepted.
C10_Provenance ==
    startPc \in {"assigned", "returned"} =>
        CurrentSocket \in ({cfgSocket} \cup processedEvents \cup updatedOk)

\* When the watcher has finished with an event (its unlock), CurrentSocket is
\* the event's value; CurrentSocket changes only in Start's assignment, in
\* the watcher's write of an event value, and in the poll's write after a
\* successful UpdateOperatorSocket.
C10_Step ==
    /\ (chainPc = "unlock" /\ chainPc' = "select") => CurrentSocket' = chainEv
    /\ (chainPc = "locked" /\ chainPc' = "unlock") => CurrentSocket' = chainEv
    /\ CurrentSocket' # CurrentSocket =>
          \/ startPc = "init" /\ startPc' = "assigned"
          \/ chainPc = "locked" /\ chainPc' = "unlock" /\ CurrentSocket' = chainEv
          \/ /\ pollPc = "update" /\ pollPc' = "unlock"
             /\ CurrentSocket' = pollSocket
             /\ pollSocket \in updatedOk' /\ onchain' = pollSocket

\* C10: after the on-chain watcher finishes processing an event with value
\* S, CurrentSocket is S and stays S until a later event is processed or a
\* poll update succeeds; under every interleaving CurrentSocket is the
\* startup socket, a processed event's value or a successfully updated one.
C10_SocketConvergence == [](C10_Provenance) /\ [][C10_Step]_vars

\* After a successful poll update the watcher processed an event with yet
\* another value, and CurrentSocket is that value.
C10_Witness ==
    /\ chainPc = "select"
    /\ updatedOk # {}
    /\ chainEv \in processedEvents
    /\ CurrentSocket = chainEv
    /\ CurrentSocket \notin (updatedOk \cup {cfgSocket})

\* ---------------------------------------------------------------------------
\* Local-IP poll: checkCurrentNodeIp, lines 381-396
\* ---------------------------------------------------------------------------

\* A poll of checkCurrentNodeIp has ended without aligning the registration:
\* the public-IP lookup failed, or UpdateOperatorSocket failed and the
\* computed socket still differs from CurrentSocket.
PollFailed ==
    \/ lastPoll = "lookupFailed"
    \/ lastPoll = "updateFailed" /\ pollSocket # CurrentSocket

\* C11: the local-IP poll runs on every tick of its interval while ctx is not
\* cancelled: when a poll has failed and the watcher is back in its select,
\* the timer still has a tick to deliver, so that a later poll attempts
\* UpdateOperatorSocket again.
C11_FailedPollIsRetried ==
    (pollPc = "select" /\ ~cancelled /\ PollFailed) => timer \in {"armed", "ready"}

\* ---------------------------------------------------------------------------
\* updateSocketAddress, lines 343-358
\* ---------------------------------------------------------------------------

\* UpdateOperatorSocket is only about to be called for a socket that differs
\* from CurrentSocket.
C12_CallOnlyWhenDiffers ==
    pollPc = "update" => pollSocket # CurrentSocket

\* One step of updateSocketAddress with the computed socket pollSocket:
\* the comparison of line 346 and the call of line 350 with what follows it.
C12_Step ==
    /\ (pollPc = "locked" /\ pollPc' # "locked" /\ pollSocket = CurrentSocket)
        => /\ pollPc' = "unlock"
           /\ UNCHANGED <<CurrentSocket, onchain, updateCalls, updatedOk,
                          socketChanges, writeLog>>
    /\ (pollPc = "update" /\ pollPc' # "update")
        => /\ updateCalls'.poll = updateCalls.poll + 1
           /\ \/ /\ lastPoll' = "updated"
                 /\ onchain' = pollSocket
                 /\ CurrentSocket' = pollSocket
                 /\ socketChanges' = socketChanges + 1
              \/ /\ lastPoll' = "updateFailed"
                 /\ UNCHANGED <<CurrentSocket, onchain, socketChanges, writeLog>>

\* C12: a poll step with computed socket S. S equal to CurrentSocket:
\* UpdateOperatorSocket is not called and nothing changes. S differs and the
\* update succeeds: CurrentSocket becomes S and exactly one socket-change
\* signal is recorded. S differs and the update fails: CurrentSocket is
\* unchanged and no signal is recorded.
C12_PollStepOutcomes ==
    [](C12_CallOnlyWhenDiffers) /\ [][C12_Step]_vars

\* A poll whose UpdateOperatorSocket call failed has left CurrentSocket and
\* the signal count alone.
C12_Witness ==
    /\ pollPc = "unlock"
    /\ lastPoll = "updateFailed"
    /\ updateCalls.poll = 1
    /\ pollSocket # CurrentSocket
    /\ socketChanges = 0

\* ---------------------------------------------------------------------------
\* Start, lines 185-190
\* ---------------------------------------------------------------------------

\* With PubIPCheckInterval = 0 no watcher exists and the only write to
\* CurrentSocket is the one of Start; with a positive interval a Start that
\* has returned nil has launched both watchers.
C13_Gate ==
    /\ pubIPCheckInterval = 0
        => /\ chainPc = "off"
           /\ pollPc = "off"
           /\ \A w \in writeLog : w.by = "start"
           /\ updateCalls = [chain |-> 0, poll |-> 0]
           /\ startPc \in {"assigned", "returned"}
                => (Cardinality(writeLog) = 1 /\ CurrentSocket = cfgSocket)
    /\ (pubIPCheckInterval > 0 /\ startPc = "returned")
        => (chainPc # "off" /\ pollPc # "off")

\* With PubIPCheckInterval = 0, once Start has assigned CurrentSocket no step
\* changes it.
C13_NoLaterChange ==
    (pubIPCheckInterval = 0 /\ startPc # "init") => CurrentSocket' = CurrentSocket

\* C13: when PubIPCheckInterval is 0, Start launches neither socket watcher,
\* so CurrentSocket is written exactly once (in Start) and never changes
\* afterwards; when it is positive, both watchers are started.
C13_IntervalGatesWatchers ==
    [](C13_Gate) /\ [][C13_NoLaterChange]_vars

\* Start has returned with a zero interval, ctx has since been cancelled, and
\* Start's write is the only one.
C13_Witness ==
    /\ startPc = "returned"
    /\ pubIPCheckInterval = 0
    /\ cancelled
    /\ CurrentSocket = cfgSocket
    /\ writeLog = {Write("start")}

\* ---------------------------------------------------------------------------
\* Watcher shutdown, lines 360-396
\* ---------------------------------------------------------------------------

\* Neither watcher is running: each was never launched or has returned.
WatchersStopped ==
    /\ chainPc \in {"off", "exited"}
    /\ pollPc \in {"off", "exited"}

WritesBy(w) == {x \in writeLog : x.by = w}

\* A watcher that has returned stays returned, adds no write to CurrentSocket
\* and makes no transactor call.
C14_ExitedIsFinal ==
    /\ chainPc = "exited"
        => /\ chainPc' = "exited"
           /\ WritesBy("chain")' = WritesBy("chain")
           /\ updateCalls'.chain = updateCalls.chain
    /\ pollPc = "exited"
        => /\ pollPc' = "exited"
           /\ WritesBy("poll")' = WritesBy("poll")
           /\ updateCalls'.poll = updateCalls.poll
    /\ (chainPc = "exited" /\ pollPc = "exited")
        => UNCHANGED <<CurrentSocket, onchain, updateCalls, socketChanges, writeLog>>

\* C14: once ctx is cancelled, both socket watchers eventually terminate (and
\* stay terminated), and after terminating neither writes CurrentSocket nor
\* calls the transactor again.
C14_WatchersTerminate ==
    (cancelled ~> []WatchersStopped) /\ [][C14_ExitedIsFinal]_vars

\* Both watchers were launched, processed an event and a poll, and have
\* returned after the cancellation.
C14_Witness ==
    /\ cancelled
    /\ chainPc = "exited"
    /\ pollPc = "exited"
    /\ processedEvents # {}
    /\ updateCalls.poll = 1

\* ---------------------------------------------------------------------------
\* Stage observations of ProcessBatch, lines 239-314
\* ---------------------------------------------------------------------------

\* The call c has recorded stage s.
Reached(c, s) == \E i \in 1..Len(stages[c]) : stages[c][i] = s

\* The call c has recorded stage a strictly before stage b.
Before(c, a, b) ==
    \E i, j \in 1..Len(stages[c]) :
        i < j /\ stages[c][i] = a /\ stages[c][j] = b

\* "received" is the first stage a call records.
ReceivedFirst(c) == stages[c] # <<>> => stages[c][1] = "received"

\* C15 as stated: "received" precedes every other stage of a call, and a
\* call that reaches "signed" has reached "stored" and "validated" before.
C15_SignedAfterStoredAndValidated ==
    \A c \in Calls :
        /\ ReceivedFirst(c)
        /\ Reached(c, "signed")
            => (Before(c, "stored", "signed") /\ Before(c, "validated", "signed"))

\* C15: within one ProcessBatch call "received" precedes all other stages;
\* "signed" is the last stage, is recorded strictly after "validated" and
\* after the store result was received without error; "stored" is recorded
\* exactly by a call whose StoreBatch wrote the batch, and then strictly
\* before "signed". A call whose StoreBatch reported ErrBatchAlreadyExist
\* reaches "signed" without a "stored" stage.
C15_StageOrder ==
    \A c \in Calls :
        /\ ReceivedFirst(c)
        /\ Reached(c, "stored") <=> storeOutcome[c] = "fresh"
        /\ Reached(c, "signed")
            => /\ stages[c][Len(stages[c])] = "signed"
               /\ Before(c, "validated", "signed")
               /\ gpc[c] = "exit"
               /\ gres[c].err = Nil
               /\ storeOutcome[c] \in {"fresh", "exists"}
               /\ storeOutcome[c] = "fresh" => Before(c, "stored", "signed")

\* One call stored the batch while validation had already passed and then
\* signed; a second call for the same header found the batch stored and
\* signed without a "stored" stage.
C15_Witness ==
    \E c, d \in Calls :
        /\ c # d
        /\ hdr[c] = hdr[d]
        /\ stages[c] = <<"received", "validated", "stored", "signed">>
        /\ stages[d] = <<"received", "validated", "signed">>
        /\ storeOutcome[d] = "exists"

\* ---------------------------------------------------------------------------
\* expireLoop, lines 197-219
\* ---------------------------------------------------------------------------

\* At most one DeleteExpiredEntries is in flight, exactly while the loop is
\* inside the call, and every tick received has started one invocation.
C16_OneInFlight ==
    /\ inFlight \in {0, 1}
    /\ inFlight = 1 <=> epc = "sweeping"
    /\ sweepsStarted = ticksTaken

\* An invocation starts only when none is in flight and consumes one tick;
\* a tick that arrives during a sweep starts nothing; whatever the sweep
\* returned, the loop waits for the next tick.
C16_Step ==
    /\ inFlight' > inFlight
        => /\ inFlight = 0
           /\ tick = 1 /\ tick' = 0
           /\ ticksTaken' = ticksTaken + 1
           /\ sweepsStarted' = sweepsStarted + 1
    /\ sweepsStarted' # sweepsStarted => inFlight' = inFlight + 1
    /\ (epc = "sweeping" /\ tick' # tick) => UNCHANGED <<inFlight, sweepsStarted>>
    /\ inFlight' < inFlight
        => (epc' = "waiting" /\ lastSweep' \in {"ok", "deadline", "error"})

\* C16: the expiration sweeper is strictly sequential: at most one
\* DeleteExpiredEntries invocation is in flight, each tick triggers at most
\* one invocation, and a new invocation starts only after the previous one
\* has returned, also when a sweep outlasts the poll interval or returns an
\* error (deadline exceeded included).
C16_SweeperSequential ==
    [](C16_OneInFlight) /\ [][C16_Step]_vars

\* The first sweep ended with deadline exceeded, the second is in flight and
\* a tick has arrived while it runs.
C16_Witness ==
    /\ sweepsStarted = 2
    /\ lastSweep = "deadline"
    /\ epc = "sweeping"
    /\ inFlight = 1
    /\ tick = 1

\* ---------------------------------------------------------------------------
\* Validation jobs, lines 323-337 and 445-453
\* ---------------------------------------------------------------------------

\* ValidateBatch has returned the error of a blob before collecting every
\* result.
ReturnedEarly == vpc = "returned" /\ vRet.kind = "blobErr"

\* Every job of the call has sent its result and returned.
AllJobsDone == \A b \in 1..vN : job[b] = "done"

\* A running job always finds room in out: its send does not block.
C17_SendNeverBlocks ==
    \A b \in Blobs : job[b] = "running" => Len(out) < vN

\* While a job is pending the pool can take a step, whether or not
\* ValidateBatch is still collecting.
C17_PoolCanStep ==
    (\E b \in Blobs : job[b] \in {"queued", "running"}) => ENABLED PoolStep

\* C17: when ValidateBatch returns early on the first failing result, every
\* remaining validation job still runs to completion and sends its result
\* without blocking (out holds len(blobs) entries): no job is stuck forever,
\* collected or not.
C17_JobsCompleteAfterEarlyReturn ==
    /\ [](C17_SendNeverBlocks /\ C17_PoolCanStep)
    /\ ReturnedEarly ~> AllJobsDone

\* ValidateBatch returned the error of the first of two blobs; the second job
\* has finished since and its result sits uncollected in out.
C17_Witness ==
    /\ ReturnedEarly
    /\ vN = 2
    /\ vRet.blob = 1
    /\ AllJobsDone
    /\ Len(out) = 1

\* Jobs exist exactly for the blobs submitted so far, all blobs are submitted
\* once the submit loop is over, and at most NumBatchValidators jobs run.
C18_JobsAndLimit ==
    /\ vSub <= vN
    /\ \A b \in Blobs : job[b] # "none" <=> b <= vSub
    /\ (vFetchOk /\ vpc \in {"collect", "returned"}) => vSub = vN
    /\ Cardinality(Running) <= vWorkers

\* A job is submitted only by the submit loop, for the next blob, once.
C18_SubmitOnce ==
    \A b \in Blobs :
        (job'[b] = "queued" /\ job[b] # "queued")
            => (job[b] = "none" /\ vpc = "submit" /\ b = vSub + 1 /\ vSub' = b)

\* C18: during one ValidateBatch call exactly one validation job is submitted
\* per blob, and at every moment the number of the call's jobs executing
\* concurrently is at most NumBatchValidators.
C18_OneJobPerBlobBounded ==
    [](C18_JobsAndLimit) /\ [][C18_SubmitOnce]_vars

\* Two blobs and one validator: the first job runs, the second waits in the
\* pool's queue.
C18_Witness ==
    /\ vN = 2
    /\ vWorkers = 1
    /\ job[1] = "running"
    /\ job[2] = "queued"

\* ---------------------------------------------------------------------------
\* checkRegisteredNodeIpOnChain, lines 360-379
\* ---------------------------------------------------------------------------

\* The on-chain watcher has made no UpdateOperatorSocket call.
C19_NoChainCall == updateCalls.chain = 0

\* A step of the launched on-chain watcher leaves the registration, the call
\* counts and the change signals alone; it changes CurrentSocket exactly when
\* it compares an event value that differs, and then to that value.
C19_Step ==
    (chainPc # "off" /\ chainPc' # chainPc)
        => /\ UNCHANGED <<onchain, updateCalls, updatedOk, socketChanges>>
           /\ CurrentSocket' # CurrentSocket <=> (chainPc = "locked" /\ chainEv # CurrentSocket)
           /\ CurrentSocket' # CurrentSocket => CurrentSocket' = chainEv

\* C19: the on-chain watcher never calls UpdateOperatorSocket: processing an
\* event changes only CurrentSocket, and only when the event value differs
\* from it, and leaves the on-chain registration untouched.
C19_WatcherFrame ==
    [](C19_NoChainCall) /\ [][C19_Step]_vars

\* The watcher has overwritten CurrentSocket with an event value that is not
\* what this node's transactor registered.
C19_Witness ==
    /\ chainPc = "unlock"
    /\ Write("chain") \in writeLog
    /\ CurrentSocket = chainEv
    /\ onchain # chainEv
    /\ updateCalls.chain = 0

\* ---------------------------------------------------------------------------
\* The store goroutine and storeChan, lines 259-301
\* ---------------------------------------------------------------------------

\* The store goroutine of call c is launched on every path but the hash
\* failure; a call that has returned has received the result, which ended the
\* goroutine; the result is only ever received by the call itself; while the
\* goroutine is pending, it or its call can take a step.
C20_ReceivedBeforeReturn ==
    \A c \in Calls :
        /\ gpc[c] = "none" <=> (pc[c] = "idle" \/ (Done(c) /\ ret[c].err = "hashErr"))
        /\ (Done(c) /\ gpc[c] # "none") => gpc[c] = "exit"
        /\ gpc[c] = "exit" => pc[c] \in {"rollback", "done"}
        /\ gpc[c] \in {"store", "send"}
            => ENABLED (GoStoreBatch(c) \/ Validate(c) \/ RecvInvalid(c) \/ RecvValid(c))

\* The goroutine runs StoreBatch, then sends, then exits, each once; its send
\* and the call's receive are one rendezvous, and the call leaves a receive
\* of lines 285/298 only through it.
C20_Step ==
    \A c \in Calls :
        /\ gpc'[c] # gpc[c]
            => <<gpc[c], gpc'[c]>> \in
                 {<<"none", "store">>, <<"store", "send">>, <<"send", "exit">>}
        /\ gpc'[c] = "exit" /\ gpc[c] # "exit"
            <=> (pc[c] \in {"recv", "recvInvalid"} /\ pc'[c] # pc[c])

\* C20: on every path of ProcessBatch that launches the store goroutine,
\* ProcessBatch receives the store result exactly once before it returns and
\* the goroutine sends exactly one result; so the goroutine always terminates
\* once StoreBatch has returned, and ProcessBatch never returns while its own
\* StoreBatch is running.
C20_StoreResultReceivedOnce ==
    [](C20_ReceivedBeforeReturn) /\ [][C20_Step]_vars

\* Two calls have returned through the receive: one whose validation and
\* StoreBatch both failed, the other with a signature.
C20_Witness ==
    \E c, d \in Calls :
        /\ c # d
        /\ Done(c) /\ Done(d)
        /\ gpc[c] = "exit" /\ gpc[d] = "exit"
        /\ valOutcome[c] # "pass" /\ storeOutcome[c] = "failed"
        /\ ret[d].sig # Nil

============================================================================
